---------------------------- MODULE Spec2Model ----------------------------
(***************************************************************************)
(* The FIFO queueing engine of src/airport_sim_v8_complete.py              *)
(* (run_fifo_simulation) as a state machine.                               *)
(*                                                                         *)
(* One run of run_fifo_simulation(config, use_vip) is modelled statement   *)
(* block by statement block: the head of the minute loop (lines 40-76),    *)
(* one iteration of the standard service loop (78-107), one iteration of   *)
(* the VIP service loop (110-116), the bookkeeping that closes a minute    *)
(* (118-130) and the return (132-134).                                     *)
(*                                                                         *)
(* Numbers.  The capacity rates of lines 66-67 are multiples of 2.5, so    *)
(* cap_std_rate, cap_vip_rate and total_capacity_slots hold TWICE the      *)
(* program's value (half passengers), which keeps them integers.  A        *)
(* throughput factor U of np.random.uniform(0.95, 1.05) is held in         *)
(* hundredths (95 .. 104).  efficiency and Processed_Wait_Avg are held as  *)
(* fractions <<numerator, denominator>>.                                   *)
(*                                                                         *)
(* Randomness.  The run draws from the process-wide generator np.random;   *)
(* rng stands for the stream that generator gives to the run.              *)
(***************************************************************************)
EXTENDS Integers, Sequences, FiniteSets, TLC

\* ---------------------------------------------------------------- constants
PAX_PROCESS_TIME_SEC == 24
AVG_SPEND == 45
MAX_WAIT_TOLERANCE == 15
MIN_SHOPPING_TIME == 30
AVG_PRE_FLIGHT_TIME == 90
\* 3600 / PAX_PROCESS_TIME_SEC: 150 passengers an hour
LANE_CAPACITY_HR == 3600 \div PAX_PROCESS_TIME_SEC
OPS_COST_HR == 150
\* range(180) of the minute loop
HORIZON == 180

\* ------------------------------------------------------------------- bounds
\* A "bursty" random stream varies in the minutes that are a multiple of
\* DrawPeriod; in the minutes between, it gives no arrival, the factor 1.00
\* and no sample.
DrawPeriod == 90
\* The arrival counts a Poisson draw with a positive mean is let to give.
SmallBurst == 7
BigBurst == 250
\* The passenger sample log is let to grow to MaxSamples entries.
MaxSamples == 1
\* The lane counts of the lane-allocation runs are 1 .. MaxLanes.
MaxLanes == 8
\* A "sampled" random stream lets the sampling draw go either way in the
\* minutes that are a multiple of SamplePeriod.
SamplePeriod == 10

\* ---------------------------------------------------------------- variables
VARIABLES
    config, use_vip,                 \* the arguments of the run
    rng,                             \* np.random: the stream the run draws from
    pc, t, k,                        \* position: block, minute, loop index
    raised,                          \* the exception that ended the run
    minute_data, passenger_data,
    queue_std, queue_vip,
    cumulative_revenue, cumulative_lost, total_waits,
    total_capacity_slots, used_capacity_slots,
    actual_arrivals, vip_lanes, std_lanes,
    cap_std_rate, cap_vip_rate,
    processed_std_count, processed_vip_count,
    wait_times_this_min, processed_this_min,
    efficiency,
    scenario,                        \* the schedule the control room builds
    guidance                         \* the calculate_guidance calls made

ui == <<scenario, guidance>>
args == <<config, use_vip, rng>>
outputs == <<minute_data, passenger_data>>
queues == <<queue_std, queue_vip>>
accumulators == <<cumulative_revenue, cumulative_lost, total_waits,
                  total_capacity_slots, used_capacity_slots>>
minute_locals == <<actual_arrivals, vip_lanes, std_lanes, cap_std_rate,
                   cap_vip_rate, processed_std_count, processed_vip_count>>
service_locals == <<wait_times_this_min, processed_this_min>>
engine == <<args, pc, t, k, raised, outputs, queues, accumulators,
           minute_locals, service_locals, efficiency>>
vars == <<engine, ui>>

\* ------------------------------------------------------------------ helpers
Max(a, b) == IF a >= b THEN a ELSE b

\* int(x) of a quotient n/d with d > 0: truncation toward zero.
Trunc(n, d) == IF n >= 0 THEN n \div d ELSE -((-n) \div d)

\* s[lo] + ... + s[hi], by halves
RECURSIVE SumRange(_, _, _)
SumRange(s, lo, hi) ==
    IF lo > hi THEN 0
    ELSE IF lo = hi THEN s[lo]
    ELSE LET mid == (lo + hi) \div 2
         IN SumRange(s, lo, mid) + SumRange(s, mid + 1, hi)

SumSeq(s) == SumRange(s, 1, Len(s))

\* A slip: the entries are stamped with the minute before.
Repeat_Stale(x, n) == [j \in 1..n |-> x - 1]

\* [x] * n
Repeat(x, n) == [j \in 1..n |-> x]

\* A slip: deque.pop() takes the newest entry, not the oldest.
Popleft_Pop(q) == <<q[Len(q)], SubSeq(q, 1, Len(q) - 1)>>

\* A slip: the front of the deque is read and left in place.
Popleft_Peek(q) == <<Head(q), q>>

\* deque.popleft(): the value taken and the deque left.
Popleft(q) == <<Head(q), Tail(q)>>

\* np.mean(s) if s else 0, as the fraction <<numerator, denominator>>.
MeanOrZero(s) == IF s = <<>> THEN <<0, 1>> ELSE <<SumSeq(s), Len(s)>>

\* hour_idx = t // 60
HourIdx(minute) == minute \div 60

\* (lanes * (3600 / PAX_PROCESS_TIME_SEC)) / 60.0, doubled.
CapRate(lanes) == (lanes * 3600 * 2) \div (PAX_PROCESS_TIME_SEC * 60)

\* A slip: the VIP share is rounded up.
VipCount_Ceil(arrivals) == (arrivals * 2 + 9) \div 10

\* int(actual_arrivals * 0.2)
VipCount(arrivals) == (arrivals * 2) \div 10

\* A slip: the lanes are split whether or not the VIP flag is set.
VipLanes_AnyFlag(lanes, vip) == IF lanes > 4 THEN 2 ELSE 1

\* vip_lanes of lines 59-64
VipLanes(lanes, vip) == IF vip THEN (IF lanes > 4 THEN 2 ELSE 1) ELSE 0

\* A slip: the VIP lanes are not taken out of the standard lanes.
StdLanes_Whole(lanes, vip) == Max(1, lanes)

\* A slip: the standard class is not kept at one lane or more.
StdLanes_NoFloor(lanes, vip) ==
    IF vip THEN lanes - VipLanes(lanes, vip) ELSE lanes

\* std_lanes of lines 59-64
StdLanes(lanes, vip) == IF vip THEN Max(1, lanes - VipLanes(lanes, vip)) ELSE lanes

\* int(cap_rate * U): cap is doubled and u is in hundredths.
ProcessedCount(cap, u) == Trunc(cap * u, 200)

\* A slip: the dwell time is counted from the shopping time.
DwellTime_WrongBase(wait) == MIN_SHOPPING_TIME - wait - 10

\* dwell_time = AVG_PRE_FLIGHT_TIME - wait - 10
DwellTime(wait) == AVG_PRE_FLIGHT_TIME - wait - 10

\* A slip: a wait of exactly the tolerance counts as stressed.
SecStatus_AtLeast(wait) ==
    IF wait >= MAX_WAIT_TOLERANCE THEN "Stressed" ELSE "Happy"

SecStatus(wait) == IF wait > MAX_WAIT_TOLERANCE THEN "Stressed" ELSE "Happy"

RetStatus(wait) ==
    IF DwellTime(wait) < MIN_SHOPPING_TIME THEN "Missed Opportunity" ELSE "Shopper"

\* A slip: the lost spend is added for every standard passenger.
LostOf_Always(wait) == AVG_SPEND

\* What one standard passenger adds to cumulative_lost and cumulative_revenue.
LostOf(wait) == IF DwellTime(wait) < MIN_SHOPPING_TIME THEN AVG_SPEND ELSE 0

RevenueOf(wait) == IF DwellTime(wait) < MIN_SHOPPING_TIME THEN 0 ELSE AVG_SPEND

\* A slip: a VIP passenger spends what a standard shopper does.
VipRevenue_Flat == AVG_SPEND

\* What one VIP passenger adds to cumulative_revenue.
VipRevenue == AVG_SPEND * 3

PassengerRecord(minute, wait) ==
    [Time |-> minute, Wait_Time |-> wait, Security_Status |-> SecStatus(wait),
     Retail_Status |-> RetStatus(wait), Dwell_Time |-> Max(0, DwellTime(wait))]

\* (used / total) * 100 if total > 0 else 0, as a fraction; total is doubled.
Efficiency(used, total) ==
    IF total > 0 THEN <<used * 2 * 100, total>> ELSE <<0, 1>>

\* ---------------------------------------------------------- the random stream
\* np.random is a process-wide generator: what a run draws is decided by the
\* generator's state when the run starts.  The model explores two families
\* of streams.  A "bursty" stream lets every draw of a draw minute take any
\* of a few outcomes.  A "steady" stream gives the Poisson mean as the
\* arrival count of every minute, one throughput factor rng.u throughout and
\* no sample.  A "sampled" stream is a steady one whose sampling draw may go
\* either way in every SamplePeriod-th minute.
UniformValues == {95, 100, 104}

\* The factors a draw minute of a bursty stream is let to give.
BurstFactors == {95, 104}

BurstyStreams == {[kind |-> "bursty", u |-> 100]}

SteadyStreams == [kind : {"steady"}, u : UniformValues]

SampledStreams == {[kind |-> "sampled", u |-> 100]}

SampleMinute(minute) == minute % SamplePeriod = 0

DrawMinute(minute) == minute % DrawPeriod = 0

\* A slip: a zero mean is not told from a positive one.
PoissonDraws_AnyMean(pax, minute) ==
    IF rng.kind # "bursty" THEN {pax \div 60}
    ELSE IF DrawMinute(minute) THEN {0, SmallBurst, BigBurst} ELSE {0}

\* np.random.poisson(pax / 60.0) for pax >= 0: always 0 when pax = 0.
PoissonDraws(pax, minute) ==
    IF pax = 0 THEN {0}
    ELSE IF rng.kind # "bursty" THEN {pax \div 60}
    ELSE IF DrawMinute(minute) THEN {0, SmallBurst, BigBurst} ELSE {0}

\* np.random.uniform(0.95, 1.05), in hundredths.
UniformDraws(minute) ==
    IF rng.kind = "bursty" /\ DrawMinute(minute) THEN BurstFactors ELSE {rng.u}

\* np.random.random() > 0.85
SampleDraws(minute, log) ==
    IF /\ Len(log) < MaxSamples
       /\ \/ rng.kind = "bursty" /\ DrawMinute(minute)
          \/ rng.kind = "sampled" /\ SampleMinute(minute)
    THEN BOOLEAN ELSE {FALSE}

\* --------------------------------------------------------------------- Init
LaneCounts == {1, 12}
PaxRates == {0, 6000}

HourConfigs == [pax : PaxRates, lanes : LaneCounts]

\* A schedule of the model: a lane count per hour and one arrival rate.
Schedules == {s \in [1..3 -> HourConfigs] : \A h \in 1..3 : s[h].pax = s[1].pax}

\* Lines 27-38 of a run that is called directly: the control room is not
\* involved.
InitRun ==
    /\ pc = "minute" /\ t = 0 /\ k = 0 /\ raised = "none"
    /\ minute_data = <<>> /\ passenger_data = <<>>
    /\ queue_std = <<>> /\ queue_vip = <<>>
    /\ cumulative_revenue = 0 /\ cumulative_lost = 0 /\ total_waits = <<>>
    /\ total_capacity_slots = 0 /\ used_capacity_slots = 0
    /\ actual_arrivals = 0 /\ vip_lanes = 0 /\ std_lanes = 0
    /\ cap_std_rate = 0 /\ cap_vip_rate = 0
    /\ processed_std_count = 0 /\ processed_vip_count = 0
    /\ wait_times_this_min = <<>> /\ processed_this_min = 0
    /\ efficiency = <<0, 1>>
    /\ scenario = <<>> /\ guidance = <<>>

Init ==
    /\ config \in Schedules
    /\ use_vip \in BOOLEAN
    /\ rng \in BurstyStreams
    /\ InitRun

\* ------------------------------------------------------------------ actions
\* The run ends with an exception: nothing is returned.
Raise(exc) ==
    /\ pc' = "error" /\ raised' = exc
    /\ UNCHANGED <<ui, args, t, k, outputs, queues, accumulators, minute_locals,
                   service_locals, efficiency>>

\* Lines 44-76 for the hour's settings: the draws, the arrivals appended to
\* the queues, the lanes and the capacity of the minute.
Admit(settings, n, u_std, u_vip) ==
    LET vl == VipLanes(settings.lanes, use_vip)
        sl == StdLanes(settings.lanes, use_vip)
        vc == IF use_vip THEN VipCount(n) ELSE 0
    IN /\ actual_arrivals' = n
       /\ queue_vip' = queue_vip \o Repeat(t, vc)
       /\ queue_std' = queue_std \o Repeat(t, n - vc)
       /\ vip_lanes' = vl /\ std_lanes' = sl
       /\ cap_std_rate' = CapRate(sl) /\ cap_vip_rate' = CapRate(vl)
       /\ total_capacity_slots' = total_capacity_slots + CapRate(sl) + CapRate(vl)
       /\ processed_std_count' = ProcessedCount(CapRate(sl), u_std)
       /\ processed_vip_count' =
             IF use_vip THEN ProcessedCount(CapRate(vl), u_vip) ELSE 0
       /\ wait_times_this_min' = <<>> /\ processed_this_min' = 0
       /\ pc' = "std" /\ k' = 0
       /\ UNCHANGED <<ui, args, t, raised, outputs, cumulative_revenue,
                      cumulative_lost, total_waits, used_capacity_slots,
                      efficiency>>

\* Lines 40-76: the head of the minute loop.  config[hour_idx] raises
\* IndexError past the end of the schedule, and np.random.poisson raises
\* ValueError for a negative mean.
BeginMinute ==
    /\ pc = "minute" /\ t < HORIZON
    /\ IF HourIdx(t) + 1 > Len(config)
       THEN Raise("IndexError")
       ELSE IF config[HourIdx(t) + 1].pax < 0
       THEN Raise("ValueError")
       ELSE \E n \in PoissonDraws(config[HourIdx(t) + 1].pax, t) :
            \E u_std \in UniformDraws(t) :
            \E u_vip \in (IF use_vip THEN UniformDraws(t) ELSE {rng.u}) :
               Admit(config[HourIdx(t) + 1], n, u_std, u_vip)

\* A slip: the spend of a passenger is booked only when it is sampled.
ServeStd_SampledOnly ==
    /\ pc = "std" /\ k < processed_std_count /\ queue_std # <<>>
    /\ \E sampled \in SampleDraws(t, passenger_data) :
       LET arrival_time == Popleft(queue_std)[1]
           wait == t - arrival_time
       IN /\ queue_std' = Popleft(queue_std)[2]
          /\ wait_times_this_min' = Append(wait_times_this_min, wait)
          /\ total_waits' = Append(total_waits, wait)
          /\ processed_this_min' = processed_this_min + 1
          /\ cumulative_lost' =
                cumulative_lost + (IF sampled THEN LostOf(wait) ELSE 0)
          /\ cumulative_revenue' =
                cumulative_revenue + (IF sampled THEN RevenueOf(wait) ELSE 0)
          /\ passenger_data' =
                IF sampled THEN Append(passenger_data, PassengerRecord(t, wait))
                ELSE passenger_data
    /\ k' = k + 1
    /\ UNCHANGED <<ui, args, pc, t, raised, minute_data, queue_vip,
                   total_capacity_slots, used_capacity_slots, minute_locals,
                   efficiency>>

\* Lines 78-107: one iteration of the standard loop with a passenger queued.
ServeStd ==
    /\ pc = "std" /\ k < processed_std_count /\ queue_std # <<>>
    /\ \E sampled \in SampleDraws(t, passenger_data) :
       LET arrival_time == Popleft(queue_std)[1]
           wait == t - arrival_time
       IN /\ queue_std' = Popleft(queue_std)[2]
          /\ wait_times_this_min' = Append(wait_times_this_min, wait)
          /\ total_waits' = Append(total_waits, wait)
          /\ processed_this_min' = processed_this_min + 1
          /\ cumulative_lost' = cumulative_lost + LostOf(wait)
          /\ cumulative_revenue' = cumulative_revenue + RevenueOf(wait)
          /\ passenger_data' =
                IF sampled THEN Append(passenger_data, PassengerRecord(t, wait))
                ELSE passenger_data
    /\ k' = k + 1
    /\ UNCHANGED <<ui, args, pc, t, raised, minute_data, queue_vip,
                   total_capacity_slots, used_capacity_slots, minute_locals,
                   efficiency>>

\* Line 78-79: the standard loop is over, or the queue is empty and every
\* iteration left does nothing.
StdDone ==
    /\ pc = "std" /\ (k >= processed_std_count \/ queue_std = <<>>)
    /\ pc' = "vip" /\ k' = 0
    /\ UNCHANGED <<ui, args, t, raised, outputs, queues, accumulators,
                   minute_locals, service_locals, efficiency>>

\* A slip: what the standard lanes left unused serves VIP passengers.
ServeVip_Borrow ==
    /\ pc = "vip" /\ queue_vip # <<>>
    /\ k < processed_vip_count
             + (processed_std_count - Len(wait_times_this_min))
    /\ LET arrival_time == Popleft(queue_vip)[1]
           wait == t - arrival_time
       IN /\ queue_vip' = Popleft(queue_vip)[2]
          /\ processed_this_min' = processed_this_min + 1
          /\ total_waits' = Append(total_waits, wait)
          /\ cumulative_revenue' = cumulative_revenue + VipRevenue
    /\ k' = k + 1
    /\ UNCHANGED <<ui, args, pc, t, raised, outputs, queue_std, cumulative_lost,
                   total_capacity_slots, used_capacity_slots, minute_locals,
                   wait_times_this_min, efficiency>>

\* A slip: the wait of a VIP passenger is not recorded.
ServeVip_NoWait ==
    /\ pc = "vip" /\ k < processed_vip_count /\ queue_vip # <<>>
    /\ queue_vip' = Popleft(queue_vip)[2]
    /\ processed_this_min' = processed_this_min + 1
    /\ cumulative_revenue' = cumulative_revenue + VipRevenue
    /\ k' = k + 1
    /\ UNCHANGED <<ui, args, pc, t, raised, outputs, queue_std, cumulative_lost,
                   total_waits, total_capacity_slots, used_capacity_slots,
                   minute_locals, wait_times_this_min, efficiency>>

\* A slip: a VIP passenger served is sampled into the log as well.
ServeVip_Sampled ==
    /\ pc = "vip" /\ k < processed_vip_count /\ queue_vip # <<>>
    /\ LET arrival_time == Popleft(queue_vip)[1]
           wait == t - arrival_time
       IN /\ queue_vip' = Popleft(queue_vip)[2]
          /\ processed_this_min' = processed_this_min + 1
          /\ total_waits' = Append(total_waits, wait)
          /\ cumulative_revenue' = cumulative_revenue + VipRevenue
          /\ passenger_data' =
                IF Len(passenger_data) < MaxSamples
                THEN Append(passenger_data, PassengerRecord(t, wait))
                ELSE passenger_data
    /\ k' = k + 1
    /\ UNCHANGED <<ui, args, pc, t, raised, minute_data, queue_std,
                   cumulative_lost, total_capacity_slots, used_capacity_slots,
                   minute_locals, wait_times_this_min, efficiency>>

\* Lines 110-116: one iteration of the VIP loop with a passenger queued.
ServeVip ==
    /\ pc = "vip" /\ k < processed_vip_count /\ queue_vip # <<>>
    /\ LET arrival_time == Popleft(queue_vip)[1]
           wait == t - arrival_time
       IN /\ queue_vip' = Popleft(queue_vip)[2]
          /\ processed_this_min' = processed_this_min + 1
          /\ total_waits' = Append(total_waits, wait)
          /\ cumulative_revenue' = cumulative_revenue + VipRevenue
    /\ k' = k + 1
    /\ UNCHANGED <<ui, args, pc, t, raised, outputs, queue_std, cumulative_lost,
                   total_capacity_slots, used_capacity_slots, minute_locals,
                   wait_times_this_min, efficiency>>

\* Lines 110-130: the VIP loop is over (or its queue empty); the minute's
\* served count is added and its record appended.
EndMinute ==
    /\ pc = "vip" /\ (k >= processed_vip_count \/ queue_vip = <<>>)
    /\ used_capacity_slots' = used_capacity_slots + processed_this_min
    /\ minute_data' = Append(minute_data,
          [Minute |-> t, Hour |-> HourIdx(t) + 1,
           Arrivals |-> actual_arrivals * 60,
           Queue_Size |-> Len(queue_std) + Len(queue_vip),
           Processed_Wait_Avg |-> MeanOrZero(wait_times_this_min),
           Capacity |-> (cap_std_rate + cap_vip_rate) * 30])
    /\ t' = t + 1 /\ pc' = "minute"
    /\ UNCHANGED <<ui, args, k, raised, passenger_data, queues,
                   cumulative_revenue, cumulative_lost, total_waits,
                   total_capacity_slots, minute_locals, service_locals,
                   efficiency>>

\* A slip: the loop is left one minute early.
Return_Short ==
    /\ pc = "minute" /\ t = HORIZON - 1
    /\ efficiency' = Efficiency(used_capacity_slots, total_capacity_slots)
    /\ pc' = "done"
    /\ UNCHANGED <<ui, args, t, k, raised, outputs, queues, accumulators,
                   minute_locals, service_locals>>

\* Lines 132-134: the loop is over; efficiency is computed and the run returns.
Return ==
    /\ pc = "minute" /\ t = HORIZON
    /\ efficiency' = Efficiency(used_capacity_slots, total_capacity_slots)
    /\ pc' = "done"
    /\ UNCHANGED <<ui, args, t, k, raised, outputs, queues, accumulators,
                   minute_locals, service_locals>>

Next == BeginMinute \/ ServeStd \/ StdDone \/ ServeVip \/ EndMinute \/ Return

Spec == Init /\ [][Next]_vars

\* --------------------------------------- steady streams: saturated runs
\* Scenario B: 9000 passengers an hour on one lane.
ScenarioB == [h \in 1..3 |-> [pax |-> 9000, lanes |-> 1]]

\* Every lane busy in every minute: nine lanes under 1380 passengers an
\* hour, then two lanes under 300 an hour.
Saturated ==
    [h \in 1..3 |-> IF h = 1 THEN [pax |-> 1380, lanes |-> 9]
                              ELSE [pax |-> 300, lanes |-> 2]]

InitSteady ==
    /\ config \in {ScenarioB, Saturated}
    /\ use_vip \in BOOLEAN
    /\ rng \in SteadyStreams
    /\ InitRun

SpecSteady == InitSteady /\ [][Next]_vars

\* ------------------------------------------- schedules that are not valid
ShortSchedule == [h \in 1..2 |-> [pax |-> 6000, lanes |-> 1]]

NegativeRate ==
    [h \in 1..3 |-> [pax |-> IF h = 2 THEN -60 ELSE 6000, lanes |-> 1]]

NoLanes == [h \in 1..3 |-> [pax |-> 6000, lanes |-> 0]]

NegativeLanes ==
    [h \in 1..3 |-> [pax |-> 6000, lanes |-> IF h = 1 THEN -1 ELSE 12]]

InvalidSchedules == {ShortSchedule, NegativeRate, NoLanes, NegativeLanes}

InitCfg ==
    /\ config \in InvalidSchedules
    /\ use_vip \in BOOLEAN
    /\ rng \in BurstyStreams
    /\ InitRun

SpecCfg == InitCfg /\ [][Next]_vars

\* ------------------------------------- steady streams: every lane count
\* The arrival rate of the lane-allocation runs: 5 passengers a minute.
LaneRunRate == 300

\* One lane count in all three hours.
LaneSchedules ==
    {[h \in 1..3 |-> [pax |-> LaneRunRate, lanes |-> l]] : l \in 1..MaxLanes}

InitLanes ==
    /\ config \in LaneSchedules
    /\ use_vip \in BOOLEAN
    /\ rng \in SteadyStreams
    /\ InitRun

SpecLanes == InitLanes /\ [][Next]_vars

\* ------------------------------------ sampled streams: a growing backlog
\* One lane under 5 arrivals a minute: the queue and the waits grow through
\* the run.
Backlog == [h \in 1..3 |-> [pax |-> LaneRunRate, lanes |-> 1]]

InitSampled ==
    /\ config = Backlog
    /\ use_vip \in BOOLEAN
    /\ rng \in SampledStreams
    /\ InitRun

SpecSampled == InitSampled /\ [][Next]_vars

\* ------------------------------------------- the control room: guidance
\* int(np.ceil(n / d)) for d > 0
Ceil(n, d) == -((-n) \div d)

\* A slip: the residual is not kept at 0 or more.
Residual_NoClamp(total_demand, capacity) == total_demand - capacity

\* residual = max(0, total_demand - capacity)
Residual(total_demand, capacity) == Max(0, total_demand - capacity)

\* calculate_guidance(pax_input, lanes_input, previous_queue): the arguments
\* and locals of the call; the value returned is residual, and msg is the
\* kind of message displayed.
calculate_guidance(pax_input, lanes_input, previous_queue) ==
    LET total_demand == pax_input + previous_queue
        needed_lanes == Ceil(total_demand, LANE_CAPACITY_HR)
        capacity == lanes_input * LANE_CAPACITY_HR
        waste == lanes_input * OPS_COST_HR - needed_lanes * OPS_COST_HR
    IN [pax_input |-> pax_input, lanes_input |-> lanes_input,
        previous_queue |-> previous_queue,
        needed_lanes |-> needed_lanes,
        residual |-> Residual(total_demand, capacity),
        waste |-> waste,
        msg |-> IF lanes_input < needed_lanes THEN "Critical"
                ELSE IF lanes_input <= needed_lanes + 2 THEN "Optimal"
                ELSE "Over-staffed"]

\* Values of st.number_input("Arrivals", 0, 6000, ...): the ends of the
\* range, the capacity of one lane with and without one passenger more, and
\* the defaults of the three hours.
ArrivalInputs == {0, 150, 151, 1000, 2000, 3000, 6000}

\* Values of st.slider("Lanes", 1, 30, ...): the ends of the range, the
\* default of hour 1 and the lanes 2000 passengers need.
LaneInputs == {1, 4, 14, 30}

\* The residual passed to the call of the next hour: 0 for hour 1, then
\* h1_residual and h2_residual.
PreviousResidual ==
    IF guidance = <<>> THEN 0 ELSE guidance[Len(guidance)].residual

\* The control room is being filled in; no run has been called.
InitUi ==
    /\ config = <<>> /\ use_vip = FALSE
    /\ rng \in BurstyStreams
    /\ pc = "ui" /\ t = 0 /\ k = 0 /\ raised = "none"
    /\ minute_data = <<>> /\ passenger_data = <<>>
    /\ queue_std = <<>> /\ queue_vip = <<>>
    /\ cumulative_revenue = 0 /\ cumulative_lost = 0 /\ total_waits = <<>>
    /\ total_capacity_slots = 0 /\ used_capacity_slots = 0
    /\ actual_arrivals = 0 /\ vip_lanes = 0 /\ std_lanes = 0
    /\ cap_std_rate = 0 /\ cap_vip_rate = 0
    /\ processed_std_count = 0 /\ processed_vip_count = 0
    /\ wait_times_this_min = <<>> /\ processed_this_min = 0
    /\ efficiency = <<0, 1>>
    /\ scenario = <<>> /\ guidance = <<>>

\* Lines 180-204: the block of the next hour: its two inputs are read, its
\* guidance is calculated with the residual of the hour before, and its
\* settings are appended to the scenario.
GuideHour ==
    /\ pc = "ui" /\ Len(scenario) < 3
    /\ \E p \in ArrivalInputs, l \in LaneInputs :
          /\ guidance' =
                Append(guidance, calculate_guidance(p, l, PreviousResidual))
          /\ scenario' = Append(scenario, [pax |-> p, lanes |-> l])
    /\ UNCHANGED engine

NextUi == GuideHour

SpecUi == InitUi /\ [][NextUi]_vars

\* The run is straight-line code in a bounded loop, with no I/O and nothing
\* to wait for: a statement that can run does run.
SpecLanesFair == SpecLanes /\ WF_vars(Next)

\* ===================================================================== claims
\* A minute has just been closed: its record is the last of minute_data and
\* the locals still hold its values (they are next assigned in lines 45-76).
MinuteClosed == pc \in {"minute", "done"} /\ t > 0

\* The record of the minute just closed.
LastRecord == minute_data[Len(minute_data)]

\* The combined queue depth recorded at the end of the minute before the one
\* just closed: 0 before minute 0.
DepthBefore == IF t = 1 THEN 0 ELSE minute_data[t - 1].Queue_Size

\* C1 (conservation): the queue depth recorded for a minute is the depth of
\* the minute before, plus the minute's arrivals, minus the passengers served
\* in it (both classes); and the minute serves no more than were there.
C1_Conservation ==
    MinuteClosed =>
        /\ Len(minute_data) = t /\ LastRecord.Minute = t - 1
        /\ LastRecord.Queue_Size =
              DepthBefore + actual_arrivals - processed_this_min
        /\ processed_this_min <= DepthBefore + actual_arrivals

\* A minute with a backlog, arrivals of both classes and service, that ends
\* with passengers still queued.
C1_Witness ==
    /\ MinuteClosed /\ t > 1 /\ use_vip
    /\ DepthBefore > 0 /\ actual_arrivals > 0 /\ processed_this_min > 0
    /\ LastRecord.Queue_Size > 0

\* C2 (service within offered capacity): the passengers served in a minute
\* (standard plus VIP) are at most the minute's offered capacity
\* cap_std_rate + cap_vip_rate.  The rates are held doubled.
C2_ServedWithinOffered ==
    MinuteClosed => processed_this_min * 2 <= cap_std_rate + cap_vip_rate

\* C3 (utilization bound): the returned utilization percentage lies in
\* 0 .. 100, and it is 0 when the offered-capacity total is 0.  efficiency is
\* the fraction efficiency[1] / efficiency[2].
C3_UtilizationBound ==
    pc = "done" =>
        /\ 0 <= efficiency[1]
        /\ efficiency[1] <= 100 * efficiency[2]
        /\ total_capacity_slots = 0 => efficiency[1] = 0

\* One passenger was taken from queue q, leaving q2, and the wait list grew
\* from waits to waits2.  The timestamp taken is what the sum of the queue
\* lost.  It is served in order when nobody left in the queue came earlier,
\* and the wait recorded for it is the time it spent queued.
ServedInOrder(q, q2, waits, waits2) ==
    LET a == IF q2 = Tail(q) THEN Head(q) ELSE SumSeq(q) - SumSeq(q2)
    IN /\ \A i \in DOMAIN q2 : q2[i] >= a
       /\ t - a >= 0
       /\ waits2 = Append(waits, t - a)

\* C4 (FIFO ordering): whenever a passenger of a class is served, nobody of
\* that class with a smaller arrival timestamp is still queued, and the wait
\* recorded is t - arrival timestamp, which is >= 0.
C4_FifoOrder ==
    [][ /\ (pc = "std" /\ Len(queue_std') < Len(queue_std)) =>
              ServedInOrder(queue_std, queue_std', total_waits, total_waits')
        /\ (pc = "vip" /\ Len(queue_vip') < Len(queue_vip)) =>
              ServedInOrder(queue_vip, queue_vip', total_waits, total_waits')
      ]_vars

\* A standard passenger that waited has just been served while passengers
\* that arrived in this very minute are queued behind it.
C4_Witness ==
    /\ pc = "std" /\ k > 0 /\ queue_std # <<>>
    /\ total_waits[Len(total_waits)] > 0
    /\ queue_std[Len(queue_std)] = t

\* The passengers of each class that arrived in the minutes closed so far,
\* read from the arrival counts of the minute records.
RECURSIVE ArrivedIn(_, _, _)
ArrivedIn(lo, hi, vip_only) ==
    IF lo > hi THEN 0
    ELSE IF lo = hi
    THEN LET n == minute_data[lo].Arrivals \div 60
         IN IF vip_only THEN VipCount(n) ELSE n
    ELSE LET mid == (lo + hi) \div 2
         IN ArrivedIn(lo, mid, vip_only) + ArrivedIn(mid + 1, hi, vip_only)

ArrivedVip == IF use_vip THEN ArrivedIn(1, Len(minute_data), TRUE) ELSE 0

Arrived == ArrivedIn(1, Len(minute_data), FALSE)

\* The passengers of each class served so far, at a minute boundary: those
\* that arrived and are no longer queued.
ServedVip == ArrivedVip - Len(queue_vip)

ServedStd == Arrived - ArrivedVip - Len(queue_std)

\* A step that serves a standard passenger, and one that serves a VIP.
StdService == pc = "std" /\ Len(queue_std') < Len(queue_std)

VipService == pc = "vip" /\ Len(queue_vip') < Len(queue_vip)

\* C5 (revenue split) as first stated: realized plus lost revenue is 45 times
\* the standard passengers served so far, VIP on or off.
C5_RevenueSplitOriginal ==
    MinuteClosed =>
        cumulative_revenue + cumulative_lost = AVG_SPEND * ServedStd

\* C5 (revenue split), amended: serving a standard passenger adds 45 to
\* exactly one of realized and lost revenue; serving a VIP passenger adds
\* 3 * 45 to realized revenue alone; no other step changes either; and at
\* every minute boundary realized plus lost revenue is 45 times the standard
\* passengers served plus 135 times the VIP passengers served.
C5_RevenueSplit ==
    /\ [](MinuteClosed =>
            LET served_vip == ServedVip
                \* ServedStd, the VIP arrivals being those served or queued
                served_std == Arrived - (served_vip + Len(queue_vip))
                                      - Len(queue_std)
            IN cumulative_revenue + cumulative_lost =
                   AVG_SPEND * served_std + 3 * AVG_SPEND * served_vip)
    /\ [][ /\ StdService =>
                 \/ /\ cumulative_revenue' = cumulative_revenue + AVG_SPEND
                    /\ cumulative_lost' = cumulative_lost
                 \/ /\ cumulative_revenue' = cumulative_revenue
                    /\ cumulative_lost' = cumulative_lost + AVG_SPEND
           /\ VipService =>
                 /\ cumulative_revenue' = cumulative_revenue + 3 * AVG_SPEND
                 /\ cumulative_lost' = cumulative_lost
           /\ ~(StdService \/ VipService) =>
                 UNCHANGED <<cumulative_revenue, cumulative_lost>>
         ]_vars

\* Standard passengers have been served on both sides of the shopping
\* threshold, and VIP passengers have been served.
C5_Witness ==
    /\ MinuteClosed /\ use_vip
    /\ cumulative_lost > 0 /\ cumulative_revenue > 0
    /\ ServedVip > 0
    /\ cumulative_revenue > 3 * AVG_SPEND * ServedVip

\* C6 (VIP isolation): with the VIP flag off, in every minute vip_lanes = 0,
\* the VIP processed count is 0, the VIP queue stays empty, and all of the
\* minute's arrivals are appended to the standard queue.
C6_VipIsolation ==
    ~use_vip =>
        /\ vip_lanes = 0 /\ cap_vip_rate = 0 /\ processed_vip_count = 0
        /\ queue_vip = <<>>
        /\ (pc = "std" /\ k = 0) =>
              /\ Len(queue_std) =
                    (IF t = 0 THEN 0 ELSE LastRecord.Queue_Size) + actual_arrivals
              /\ \A j \in 1..actual_arrivals :
                    queue_std[Len(queue_std) - j + 1] = t

\* With the flag off, arrivals have just joined a standard queue that still
\* held a backlog.
C6_Witness ==
    /\ ~use_vip /\ pc = "std" /\ k = 0
    /\ actual_arrivals > 0 /\ Len(queue_std) > actual_arrivals

\* What the spec's ConfigurationError is about: the schedule covers every
\* hour of the horizon and holds no negative rate and no lane count below 1.
ValidSchedule(c) ==
    /\ Len(c) >= HourIdx(HORIZON - 1) + 1
    /\ \A h \in DOMAIN c : c[h].pax >= 0 /\ c[h].lanes >= 1

\* Minute 0 has not been simulated and nothing is produced.
NothingSimulated ==
    /\ t = 0 /\ pc \in {"minute", "error"}
    /\ minute_data = <<>> /\ passenger_data = <<>>
    /\ queue_std = <<>> /\ queue_vip = <<>>
    /\ cumulative_revenue = 0 /\ cumulative_lost = 0 /\ total_waits = <<>>
    /\ total_capacity_slots = 0 /\ used_capacity_slots = 0
    /\ actual_arrivals = 0

\* C7 (configuration errors fail fast): a run on a schedule that is not
\* valid simulates nothing, and the error that ends it is ConfigurationError.
C7_ConfigErrorsFailFast ==
    ~ValidSchedule(config) =>
        /\ NothingSimulated
        /\ pc = "error" => raised = "ConfigurationError"

\* Scenario A: no arrival rate in any hour.
ZeroLoad == \A h \in DOMAIN config : config[h].pax = 0

\* C9 (Scenario A, zero load): with arrival_rate = 0 in every hour, any lane
\* counts and VIP off, every minute record has Arrivals = 0 and
\* Queue_Size = 0, no passenger sample is produced, realized and lost revenue
\* are 0, the wait list is empty, and the run returns utilization 0 with its
\* 180 records.
C9_ZeroLoad ==
    (ZeroLoad /\ ~use_vip) =>
        /\ \A i \in DOMAIN minute_data :
              minute_data[i].Arrivals = 0 /\ minute_data[i].Queue_Size = 0
        /\ passenger_data = <<>>
        /\ cumulative_revenue = 0 /\ cumulative_lost = 0
        /\ total_waits = <<>>
        /\ pc = "done" => efficiency[1] = 0 /\ Len(minute_data) = HORIZON

\* A zero-load run has returned, after offering capacity in every minute.
C9_Witness ==
    /\ ZeroLoad /\ ~use_vip /\ pc = "done"
    /\ total_capacity_slots > 0 /\ Len(minute_data) = HORIZON

\* C10 (Scenario B, bottleneck): 9000 passengers an hour on one lane, VIP
\* off, arrivals at the target of 150 a minute: the run ends with passengers
\* queued, and in every minute in which the queue holds at least the offered
\* capacity the number served reaches that capacity (utilization tends to
\* 100%).  The rates are held doubled.
C10_BottleneckSaturates ==
    (config = ScenarioB /\ ~use_vip) =>
        /\ pc = "done" => LastRecord.Queue_Size > 0
        /\ (MinuteClosed /\
              (DepthBefore + actual_arrivals) * 2 >= cap_std_rate + cap_vip_rate)
             => processed_this_min * 2 >= cap_std_rate + cap_vip_rate

\* The minute whose locals (lanes, rates, counts) the state holds, and the
\* lane count the schedule gives for it.
LocalsMinute == IF pc \in {"minute", "done"} THEN t - 1 ELSE t

LaneCount == config[HourIdx(LocalsMinute) + 1].lanes

\* The head of a minute has run: the locals hold that minute's values.
LocalsSet == pc \in {"std", "vip"} \/ MinuteClosed

\* C11 (lane allocation): for every lane_count >= 1, with VIP enabled the VIP
\* class gets 2 lanes when lane_count > 4 and 1 lane otherwise, and the
\* standard class gets max(1, lane_count - vip_lanes), so lane_count = 6
\* gives VIP 2 and standard 4; with VIP disabled the VIP class gets 0 lanes
\* and the standard class gets lane_count.
C11_LaneAllocation ==
    (LocalsSet /\ LaneCount >= 1) =>
        /\ use_vip =>
              /\ LaneCount > 4 => vip_lanes = 2
              /\ LaneCount <= 4 => vip_lanes = 1
              /\ LaneCount - vip_lanes >= 1 => std_lanes = LaneCount - vip_lanes
              /\ LaneCount - vip_lanes < 1 => std_lanes = 1
              /\ LaneCount = 6 => vip_lanes = 2 /\ std_lanes = 4
        /\ ~use_vip => vip_lanes = 0 /\ std_lanes = LaneCount

\* Scenario C: six lanes with VIP enabled, split 2 and 4.
C11_Witness ==
    /\ pc = "std" /\ use_vip /\ LaneCount = 6
    /\ vip_lanes = 2 /\ std_lanes = 4

\* What the run holds besides the passenger sample log.
Aggregates ==
    <<minute_data, cumulative_revenue, cumulative_lost, total_waits,
      total_capacity_slots, used_capacity_slots, efficiency>>

\* C12 (sampling does not affect aggregates), step by step: the sampling
\* draw is made only when a standard passenger is served, and whatever its
\* outcome, that step changes the aggregates in the one way the passenger's
\* wait decides: realized revenue, lost revenue, the wait lists, the served
\* count and the queue get the same new values with and without a sample,
\* and the minute series and the capacity totals are left alone.  Every
\* other step leaves the log alone.  Two runs with the same schedule, VIP
\* flag, arrival counts and throughput factors therefore agree on all
\* aggregates, whatever the sampling draws give.
C12_SamplingNoEffect ==
    [][ /\ StdService =>
              LET w == t - Head(queue_std)
              IN /\ cumulative_revenue' =
                       cumulative_revenue + (IF 90 - w - 10 < 30 THEN 0 ELSE 45)
                 /\ cumulative_lost' =
                       cumulative_lost + (IF 90 - w - 10 < 30 THEN 45 ELSE 0)
                 /\ total_waits' = Append(total_waits, w)
                 /\ wait_times_this_min' = Append(wait_times_this_min, w)
                 /\ processed_this_min' = processed_this_min + 1
                 /\ queue_std' = Tail(queue_std)
                 /\ UNCHANGED <<minute_data, total_capacity_slots,
                                used_capacity_slots, efficiency, queue_vip,
                                pc, t, minute_locals>>
                 /\ \/ passenger_data' = passenger_data
                    \/ /\ Len(passenger_data') = Len(passenger_data) + 1
                       /\ SubSeq(passenger_data', 1, Len(passenger_data)) =
                             passenger_data
        /\ ~StdService => passenger_data' = passenger_data
      ]_vars

\* A passenger has just been served and sampled, after others of the run
\* were served without a sample.
C12_Witness ==
    /\ pc = "std" /\ k > 0 /\ passenger_data # <<>>
    /\ passenger_data[Len(passenger_data)].Time = t
    /\ Len(total_waits) > Len(passenger_data)
    /\ cumulative_revenue + cumulative_lost > AVG_SPEND

\* C13 (VIP passengers are never sampled): the log grows only in a step that
\* serves a standard passenger, by one sample whose Time is the minute of
\* that service and whose Wait_Time is that passenger's wait; a step that
\* serves a VIP passenger, and every other step, leaves the log as it is;
\* and at every minute boundary the samples are no more than the standard
\* passengers served so far.
C13_VipNeverSampled ==
    /\ [](MinuteClosed => Len(passenger_data) <= ServedStd)
    /\ [][ /\ passenger_data' # passenger_data =>
                 /\ StdService
                 /\ passenger_data' =
                       Append(passenger_data,
                              passenger_data'[Len(passenger_data')])
                 /\ passenger_data'[Len(passenger_data')].Time = t
                 /\ passenger_data'[Len(passenger_data')].Wait_Time =
                       t - Head(queue_std)
           /\ VipService => passenger_data' = passenger_data
         ]_vars

\* VIP passengers are being served in a run whose log holds a sample.
C13_Witness ==
    /\ use_vip /\ pc = "vip" /\ k > 0
    /\ passenger_data # <<>>
    /\ Len(total_waits) > Len(passenger_data)

\* C14 (run to completion): with a valid 3-hour schedule the run always
\* terminates; the minutes are simulated in increasing order, one at a time
\* from 0 to 179; each minute appends exactly one record, which carries its
\* minute index; a record, once appended, is never changed or removed; and
\* the run returns 180 records, the record at position t carrying index t.
C14_RunToCompletion ==
    /\ ValidSchedule(config) ~> (pc = "done")
    /\ [](ValidSchedule(config) =>
            /\ pc # "error" /\ t \in 0..HORIZON
            /\ pc = "done" =>
                  /\ t = HORIZON /\ Len(minute_data) = 180
                  /\ \A i \in 1..180 : minute_data[i].Minute = i - 1)
    /\ [][ /\ t' = t \/ t' = t + 1
           /\ t' = t + 1 =>
                 /\ Len(minute_data') = Len(minute_data) + 1
                 /\ minute_data'[Len(minute_data')].Minute = t
           /\ t' = t => Len(minute_data') = Len(minute_data)
           /\ SubSeq(minute_data', 1, Len(minute_data)) = minute_data
         ]_vars

\* The run has returned with the record of minute 179 last, after serving
\* passengers and with passengers still queued.
C14_Witness ==
    /\ pc = "done" /\ Len(minute_data) = 180
    /\ minute_data[180].Minute = 179
    /\ used_capacity_slots > 0 /\ queue_std # <<>>

Min(a, b) == IF a <= b THEN a ELSE b

\* The passengers of each class served in the minute just closed: every
\* standard passenger served left a wait in wait_times_this_min.
StdServedNow == Len(wait_times_this_min)

VipServedNow == processed_this_min - Len(wait_times_this_min)

\* C15 (service is capped by queue length): in every minute and for each
\* class, the passengers served are min(processed count of the class, length
\* of the class queue after the minute's arrivals were appended), the length
\* after the arrivals being what is still queued plus what was served; an
\* empty or short queue ends the service without an error; and no class is
\* served beyond its own processed count.  With VIP off the queue after the
\* arrivals is the depth recorded for the minute before plus the arrivals.
C15_ServiceCapped ==
    /\ MinuteClosed =>
          /\ StdServedNow =
                Min(processed_std_count, Len(queue_std) + StdServedNow)
          /\ VipServedNow =
                Min(processed_vip_count, Len(queue_vip) + VipServedNow)
          /\ ~use_vip =>
                processed_this_min =
                    Min(processed_std_count, DepthBefore + actual_arrivals)
    /\ pc \in {"std", "vip"} =>
          /\ Len(wait_times_this_min) <= processed_std_count
          /\ processed_this_min - Len(wait_times_this_min) <= processed_vip_count
    /\ raised = "none"

\* A minute in which the standard queue ran short of its processed count
\* while the VIP queue held more than the VIP lanes could serve.
C15_Witness ==
    /\ MinuteClosed /\ use_vip
    /\ 0 < StdServedNow /\ StdServedNow < processed_std_count
    /\ VipServedNow = processed_vip_count /\ queue_vip # <<>>

\* Queue q2 is queue q with n entries of timestamp stamp appended.
Extended(q, q2, n, stamp) ==
    /\ Len(q2) = Len(q) + n
    /\ SubSeq(q2, 1, Len(q)) = q
    /\ \A i \in (Len(q) + 1)..Len(q2) : q2[i] = stamp

\* The head of a minute runs in this step.
MinuteHead == pc = "minute" /\ pc' = "std"

\* C16 (class split): with VIP enabled, for every arrival count n of a
\* minute t, exactly floor(0.2 * n) entries with timestamp t are appended to
\* the VIP queue and n - floor(0.2 * n) entries with timestamp t to the
\* standard queue, so the two counts sum to n; with VIP disabled all n
\* entries go to the standard queue.  floor(0.2 * n) is n \div 5.
C16_ClassSplit ==
    [][ MinuteHead =>
          LET n == actual_arrivals'
          IN /\ use_vip =>
                   /\ Extended(queue_vip, queue_vip', n \div 5, t)
                   /\ Extended(queue_std, queue_std', n - (n \div 5), t)
             /\ ~use_vip =>
                   /\ Extended(queue_std, queue_std', n, t)
                   /\ queue_vip' = queue_vip
             /\ (Len(queue_vip') - Len(queue_vip))
                   + (Len(queue_std') - Len(queue_std)) = n
      ]_vars

\* With VIP enabled, an arrival count that is no multiple of 5 has just been
\* split behind a backlog of earlier passengers.
C16_Witness ==
    /\ use_vip /\ pc = "std" /\ k = 0
    /\ actual_arrivals % 5 # 0
    /\ queue_vip # <<>> /\ queue_vip[Len(queue_vip)] = t
    /\ queue_std # <<>> /\ queue_std[1] < t /\ queue_std[Len(queue_std)] = t

\* C17 (classification of a served standard passenger with wait w): mood is
\* "Stressed" iff w > 15 and "Happy" otherwise; the retail outcome is "Missed
\* Opportunity" iff the unclamped dwell time 90 - w - 10 is < 30 and "Shopper"
\* otherwise; the Dwell_Time stored in a sample is max(0, 90 - w - 10), so
\* it is never negative; and the clamp never changes the retail
\* classification (the stored value is < 30 exactly when the unclamped is).
C17_Classification ==
    \A i \in DOMAIN passenger_data :
        LET r == passenger_data[i]
            w == r.Wait_Time
        IN /\ w > 15 => r.Security_Status = "Stressed"
           /\ ~(w > 15) => r.Security_Status = "Happy"
           /\ 90 - w - 10 < 30 => r.Retail_Status = "Missed Opportunity"
           /\ ~(90 - w - 10 < 30) => r.Retail_Status = "Shopper"
           /\ r.Dwell_Time = (IF 90 - w - 10 > 0 THEN 90 - w - 10 ELSE 0)
           /\ r.Dwell_Time >= 0
           /\ (r.Dwell_Time < 30) <=> (r.Retail_Status = "Missed Opportunity")

\* A sampled passenger waited so long that its dwell time is clamped.
C17_Witness ==
    \E i \in DOMAIN passenger_data :
        /\ passenger_data[i].Wait_Time > 80
        /\ passenger_data[i].Dwell_Time = 0
        /\ passenger_data[i].Retail_Status = "Missed Opportunity"

\* C18 (VIP service effect): serving one VIP passenger at minute t pops the
\* front of the VIP queue, appends t - arrival_time to the cumulative wait
\* list and adds exactly 3 * 45 to realized revenue; it leaves lost revenue,
\* the standard queue, the passenger sample log and this minute's
\* standard-class wait list unchanged.
C18_VipServiceEffect ==
    [][ VipService =>
          /\ queue_vip' = Tail(queue_vip)
          /\ total_waits' = Append(total_waits, t - Head(queue_vip))
          /\ cumulative_revenue' = cumulative_revenue + 3 * 45
          /\ cumulative_lost' = cumulative_lost
          /\ queue_std' = queue_std
          /\ passenger_data' = passenger_data
          /\ wait_times_this_min' = wait_times_this_min
      ]_vars

\* A VIP passenger that waited has just been served, in a run with lost
\* revenue, a sample in the log, standard passengers queued and standard
\* waits recorded in this minute.
C18_Witness ==
    /\ pc = "vip" /\ k > 0
    /\ total_waits[Len(total_waits)] > 0
    /\ cumulative_lost > 0 /\ passenger_data # <<>>
    /\ queue_std # <<>> /\ wait_times_this_min # <<>>

\* C19 (wait list completeness): at the end of every minute the cumulative
\* wait list holds exactly one entry per passenger served so far in either
\* class, so its length equals the utilized-capacity total (within a minute,
\* that total plus the passengers served so far in the minute); and at the
\* end of the run total arrivals = length of the wait list + ending combined
\* queue depth.
C19_WaitListComplete ==
    /\ MinuteClosed => Len(total_waits) = used_capacity_slots
    /\ pc \in {"std", "vip"} =>
          Len(total_waits) = used_capacity_slots + processed_this_min
    /\ pc = "done" =>
          Arrived = Len(total_waits) + Len(queue_std) + Len(queue_vip)

\* A run with VIP enabled has returned with passengers of both classes
\* served and standard passengers still queued.
C19_Witness ==
    /\ pc = "done" /\ use_vip
    /\ queue_std # <<>> /\ ServedVip > 0
    /\ cumulative_lost > 0 /\ Len(total_waits) > ServedVip

\* The timestamps of queue q are non-decreasing from front to back and lie
\* in 0..t.
Ordered(q) ==
    /\ \A i \in 1..(Len(q) - 1) : q[i] <= q[i + 1]
    /\ \A i \in DOMAIN q : q[i] \in 0..t

\* Queue q becomes q2 by entries of this minute appended at the back, or by
\* one entry popped from the front, or stays as it is.
QueueStep(q, q2) ==
    \/ q2 = q
    \/ q # <<>> /\ q2 = Tail(q)
    \/ Len(q2) > Len(q) /\ Extended(q, q2, Len(q2) - Len(q), t)

\* C20 (queue order invariant): in every reachable state the timestamps held
\* in the standard queue are non-decreasing from front to back, and likewise
\* for the VIP queue; every timestamp in a queue at minute t is an integer
\* in 0..t; a queue is changed only by appending this minute's arrivals at
\* the back and popping from the front.
C20_QueueOrder ==
    /\ [](Ordered(queue_std) /\ Ordered(queue_vip))
    /\ [][ /\ QueueStep(queue_std, queue_std')
           /\ QueueStep(queue_vip, queue_vip')
         ]_vars

\* Both queues hold passengers of an earlier minute in front of passengers
\* of this minute.
C20_Witness ==
    /\ queue_std # <<>> /\ queue_std[1] < queue_std[Len(queue_std)]
    /\ queue_vip # <<>> /\ queue_vip[1] < queue_vip[Len(queue_vip)]
    /\ queue_std[Len(queue_std)] = t

\* C21 (hour index of a minute record): for every minute t in 0..179, the
\* hour index recorded in the Minute Record of t equals t \div 60 (0 for t in
\* 0..59, 1 for 60..119, 2 for 120..179), the same index that selects the
\* schedule entry used for that minute (hour_idx of line 41).
C21_HourIndex ==
    \A i \in DOMAIN minute_data :
        LET rec == minute_data[i]
        IN /\ rec.Minute \in 0..179
           /\ rec.Hour = rec.Minute \div 60
           /\ rec.Minute \in 0..59 => rec.Hour = 0
           /\ rec.Minute \in 60..119 => rec.Hour = 1
           /\ rec.Minute \in 120..179 => rec.Hour = 2
           /\ rec.Hour = HourIdx(rec.Minute)

\* C22 (backlog guidance): for every arrivals >= 0, lanes >= 1 and previous
\* residual >= 0, calculate_guidance computes needed_lanes =
\* ceil((arrivals + previous_residual) / 150), the least count of lanes whose
\* 150 an hour cover the demand, and returns residual = max(0, arrivals +
\* previous_residual - lanes * 150); the residual is never negative, it is 0
\* whenever lanes >= needed_lanes, and the residual returned for one hour is
\* the previous_residual passed to the next hour's call (0 for hour 1).
C22_BacklogGuidance ==
    /\ Len(guidance) = Len(scenario)
    /\ \A h \in DOMAIN guidance :
          LET g == guidance[h]
              demand == scenario[h].pax + g.previous_queue
              lanes == scenario[h].lanes
          IN /\ g.previous_queue =
                   (IF h = 1 THEN 0 ELSE guidance[h - 1].residual)
             /\ (scenario[h].pax >= 0 /\ lanes >= 1 /\ g.previous_queue >= 0) =>
                   /\ g.needed_lanes * 150 >= demand
                   /\ (g.needed_lanes - 1) * 150 < demand
                   /\ g.residual =
                         (IF demand - lanes * 150 > 0
                          THEN demand - lanes * 150 ELSE 0)
                   /\ g.residual >= 0
                   /\ lanes >= g.needed_lanes => g.residual = 0

\* Three hours guided: a backlog left by hour 1 is passed to hour 2, grows
\* there, and is cleared in hour 3 by lanes that only just suffice.
C22_Witness ==
    /\ Len(guidance) = 3
    /\ guidance[1].residual > 0
    /\ guidance[2].previous_queue = guidance[1].residual
    /\ guidance[2].residual > guidance[1].residual
    /\ guidance[3].residual = 0
    /\ guidance[3].lanes_input = guidance[3].needed_lanes

\* The capacity recorded for the minute whose locals the state holds, in
\* passengers an hour.
RecordedCapacity == minute_data[LocalsMinute + 1].Capacity

\* C23 (allocated lanes within the scheduled lanes) as first stated: for
\* every lane_count >= 1 and either VIP setting, std_lanes + vip_lanes <=
\* lane_count, so the combined capacity recorded in a minute record never
\* exceeds lane_count * 150 passengers an hour.
C23_LanesWithinScheduleOriginal ==
    (LocalsSet /\ LaneCount >= 1) =>
        /\ std_lanes + vip_lanes <= LaneCount
        /\ MinuteClosed => RecordedCapacity <= LaneCount * 150

\* C23, amended: for every lane_count >= 2 and either VIP setting, and for
\* lane_count = 1 with VIP disabled, std_lanes + vip_lanes <= lane_count and
\* the combined capacity recorded never exceeds lane_count * 150; with VIP
\* enabled and lane_count = 1 the engine allocates one VIP lane and one
\* standard lane, 2 lanes, and records a capacity of 300.
C23_LanesWithinSchedule ==
    (LocalsSet /\ LaneCount >= 1) =>
        /\ (LaneCount >= 2 \/ ~use_vip) =>
              /\ std_lanes + vip_lanes <= LaneCount
              /\ MinuteClosed => RecordedCapacity <= LaneCount * 150
        /\ (LaneCount = 1 /\ use_vip) =>
              /\ vip_lanes = 1 /\ std_lanes = 1
              /\ MinuteClosed => RecordedCapacity = 300

\* A minute of a run with VIP enabled on five lanes is closed: three
\* standard lanes and two VIP lanes, 750 passengers an hour recorded.
C23_Witness ==
    /\ MinuteClosed /\ use_vip /\ LaneCount = 5
    /\ std_lanes = 3 /\ vip_lanes = 2
    /\ RecordedCapacity = 750

\* C24 (mood and retail classifications are nested): every served standard
\* passenger classified "Missed Opportunity" is also classified "Stressed"
\* (wait > 50 implies wait > 15), and every passenger classified "Happy" is
\* classified "Shopper"; so no sample has Security_Status "Happy" together
\* with Retail_Status "Missed Opportunity".  For a passenger that is not
\* sampled the retail class shows in the revenue: the spend of a passenger
\* is lost only after a wait above 50, and a passenger that waited 15 or
\* less adds to realized revenue.
C24_NestedClasses ==
    /\ [](\A i \in DOMAIN passenger_data :
            LET r == passenger_data[i]
            IN /\ r.Retail_Status = "Missed Opportunity" =>
                     /\ r.Security_Status = "Stressed"
                     /\ r.Wait_Time > 50
               /\ r.Security_Status = "Happy" => r.Retail_Status = "Shopper"
               /\ ~(/\ r.Security_Status = "Happy"
                    /\ r.Retail_Status = "Missed Opportunity"))
    /\ [][ StdService =>
             LET w == t - Head(queue_std)
             IN /\ cumulative_lost' > cumulative_lost => w > 50 /\ w > 15
                /\ w <= 15 => cumulative_revenue' > cumulative_revenue
         ]_vars

\* A sampled passenger missed the shops with some dwell time left, and is
\* stressed.
C24_Witness ==
    \E i \in DOMAIN passenger_data :
        /\ passenger_data[i].Retail_Status = "Missed Opportunity"
        /\ passenger_data[i].Security_Status = "Stressed"
        /\ passenger_data[i].Dwell_Time > 0
        /\ cumulative_lost > 0

=============================================================================
